---- MODULE Spec2Model ----
(***************************************************************************)
(* FreeCAD "Create Cutviews" macro: the task panel (A010), the group       *)
(* structure builder (A020), the link generator (A030), the cube generator *)
(* (A040) and the cut executor (A050), over the host document.             *)
(*                                                                         *)
(* Text (labels, names, dropdown texts) is a sequence of one-character     *)
(* strings, so that formatting, regular-expression matching and            *)
(* str.replace are computed as the code computes them.                     *)
(*                                                                         *)
(* The host document is a sequence of objects in creation order            *)
(* (doc.Objects); an object is referred to by its position.  0 is None.    *)
(***************************************************************************)
EXTENDS Integers, Sequences, FiniteSets, TLC

VARIABLES
    doc,              \* FreeCAD.ActiveDocument.Objects, in creation order
    DuplicateLabels,  \* host preference: may two objects carry the same Label
    selected_plane,   \* panel.selected_plane (0 = None)
    selected_body,    \* panel.selected_body (0 = None)
    selected_letter,  \* panel.selected_letter (<<>> = None)
    letter_combo,     \* panel.letter_combo.currentText()
    size_input,       \* panel.size_input.currentText()
    last,             \* what the most recent handler call did (console, stages)
    calls,            \* the number of handler calls that changed the document
    ActiveDocument,   \* FreeCAD.ActiveDocument is not None
    plane_select_button_held,  \* panel.plane_select_button_held
    body_select_button_held,   \* panel.body_select_button_held
    selection,        \* FreeCADGui.Selection.getSelection()[0] (0 = empty)
    loops,            \* the select_plane / select_body calls that are polling,
                      \* outermost first; only the innermost runs
    pc,               \* where the running slot is: "events" (Qt delivers events),
                      \* or inside a toggle, after deactivate_all_select_buttons
    line_edit,        \* panel.line_edit: what the plane display field shows
    body_line_edit    \* panel.body_line_edit: what the body display field shows

vars == <<doc, DuplicateLabels, selected_plane, selected_body, selected_letter,
          letter_combo, size_input, last, calls, ActiveDocument,
          plane_select_button_held, body_select_button_held, selection, loops, pc,
          line_edit, body_line_edit>>

\* the selector buttons, the GUI selection, the polling loops and the displays
selectors == <<plane_select_button_held, body_select_button_held, selection, loops, pc,
               line_edit, body_line_edit>>

----------------------------------------------------------------------------
(* Bounds of the model *)

\* the largest number of objects the document may hold
MaxObjects == 17

\* the largest number of handler calls that change the document
MaxCalls == 3

\* the largest number of document-changing calls after which the host may
\* still raise during a call
MaxRaisingCalls == 2

----------------------------------------------------------------------------
(* Characters and text *)

Upper == {"A","B","C","D","E","F","G","H","I","J","K","L","M",
          "N","O","P","Q","R","S","T","U","V","W","X","Y","Z"}
Lower == {"a","b","c","d","e","f","g","h","i","j","k","l","m",
          "n","o","p","q","r","s","t","u","v","w","x","y","z"}
DigitChars == <<"0","1","2","3","4","5","6","7","8","9">>
Digit == {DigitChars[i] : i \in 1..10}
Whitespace == {" "}

DigitValue(c) == (CHOOSE i \in 1..10 : DigitChars[i] = c) - 1

\* str(n) for n >= 0
RECURSIVE ToDigits(_)
ToDigits(n) == IF n < 10 THEN <<DigitChars[n + 1]>>
               ELSE ToDigits(n \div 10) \o <<DigitChars[(n % 10) + 1]>>

\* f"{n:03d}"
RECURSIVE ZeroPad(_, _)
ZeroPad(s, w) == IF Len(s) >= w THEN s ELSE ZeroPad(<<"0">> \o s, w)
Pad3(n) == ZeroPad(ToDigits(n), 3)

\* int(s) for a text of digits
RECURSIVE ParseInt(_)
ParseInt(s) == IF s = <<>> THEN 0
               ELSE 10 * ParseInt(SubSeq(s, 1, Len(s) - 1)) + DigitValue(s[Len(s)])

IsDigits(s) == s # <<>> /\ \A i \in 1..Len(s) : s[i] \in Digit

StartsWithAt(s, i, t) ==
    /\ i + Len(t) - 1 <= Len(s)
    /\ \A j \in 1..Len(t) : s[i + j - 1] = t[j]

EndsWith(s, t) == Len(s) >= Len(t) /\ StartsWithAt(s, Len(s) - Len(t) + 1, t)

\* s.replace(old, new): every non-overlapping occurrence, left to right
RECURSIVE ReplaceFrom(_, _, _, _)
ReplaceFrom(s, i, old, new) ==
    IF i > Len(s) THEN <<>>
    ELSE IF StartsWithAt(s, i, old)
         THEN new \o ReplaceFrom(s, i + Len(old), old, new)
         ELSE <<s[i]>> \o ReplaceFrom(s, i + 1, old, new)
Replace(s, old, new) == ReplaceFrom(s, 1, old, new)

\* s.strip()
RECURSIVE LStrip(_)
LStrip(s) == IF s # <<>> /\ s[1] \in Whitespace THEN LStrip(Tail(s)) ELSE s
RECURSIVE RStrip(_)
RStrip(s) == IF s # <<>> /\ s[Len(s)] \in Whitespace
             THEN RStrip(SubSeq(s, 1, Len(s) - 1)) ELSE s
Strip(s) == RStrip(LStrip(s))

\* number of leading digits of s from position i on
RECURSIVE DigitRun(_, _)
DigitRun(s, i) == IF i <= Len(s) /\ s[i] \in Digit THEN 1 + DigitRun(s, i + 1) ELSE 0

\* trailing digits removed
RECURSIVE StripDigits(_)
StripDigits(s) == IF s # <<>> /\ s[Len(s)] \in Digit
                  THEN StripDigits(SubSeq(s, 1, Len(s) - 1)) ELSE s

----------------------------------------------------------------------------
(* Texts of the program *)

NoLetter == <<>>                          \* selected_letter = None
BlankEntry == <<" ", "-", " ">>           \* " - ", the dropdown's default entry
T_Cut == <<"C","u","t","_">>              \* f"Cut_{letter}"
T_AllCutviews == <<"A","l","l","_","C","u","t","v","i","e","w","s">>
T_Dashes == <<"-","-","-","-","-","-","-","-","-","-","-","-","-","-","-","-">>
group_label == T_AllCutviews \o T_Dashes  \* "All_Cutviews----------------"
T_Link == <<"_","L","i","n","k">>         \* "_Link"
T_Cutcube == <<"_","C","u","t","c","u","b","e">>
T_CutOpen == <<"_","C","u","t","_","[">>  \* "_Cut_["
T_Close == <<"]">>
T_mm == <<" ","m","m">>
T_LinkName == <<"L","i","n","k">>
T_CutName == <<"C","u","t">>
T_CenteredRectangle == <<"C","e","n","t","e","r","e","d","R","e","c","t","a","n","g","l","e">>
T_Pad == <<"P","a","d">>

\* the letters the dropdown offers in this model (a subset of A..Z) and its
\* blank default entry
Letters == {<<"F">>}
ComboItems == {BlankEntry} \cup Letters

\* the sizes the size dropdown offers in this model (a subset of 500..5000 mm)
SizeItems == {<<"5","0","0">> \o T_mm, <<"1","0","0","0">> \o T_mm}

\* the entry the size dropdown shows after construction
DefaultSize == <<"5","0","0">> \o T_mm

\* the size used when the dropdown text is no number
FallbackSize == 500

\* Create_Cutviews.cube_size
\* a size reader that never looks at the form: always the fallback
cube_size_Fallback(text) == FallbackSize

cube_size(text) ==
    IF EndsWith(text, T_mm) THEN ParseInt(Replace(text, T_mm, <<>>))
    ELSE IF IsDigits(text) THEN ParseInt(text)
    ELSE FallbackSize

----------------------------------------------------------------------------
(* The host document (FreeCAD.ActiveDocument) *)

TGroup == "App::DocumentObjectGroup"
TLink == "App::Link"
TLinkSub == "App::LinkSub"
TCut == "Part::Cut"
TPDBody == "PartDesign::Body"
TBody == "Part::Body"
TFeature == "Part::Feature"
TPart == "App::Part"
TAssembly == "Assembly::Assembly"
TAssemblyObject == "Assembly::AssemblyObject"
TSketch == "Sketcher::SketchObject"
TPadType == "PartDesign::Pad"
TPlane == "Part::Plane"
TDatumPlane == "Part::DatumPlane"

Ids(d) == 1..Len(d)

\* a document object as the host creates it
BlankObject(type) ==
    [Name |-> <<>>, Label |-> <<>>, TypeId |-> type, Group |-> <<>>,
     Visibility |-> TRUE, LinkedObject |-> 0, HasSolids |-> FALSE,
     Size |-> 0, Attached |-> 0, Base |-> 0, Tool |-> 0]

\* characters of an object name; the host replaces every other one by "_"
IdentChars == Upper \cup Lower \cup Digit \cup {"_"}
CleanName(name) == [i \in 1..Len(name) |->
                      IF name[i] \in IdentChars THEN name[i] ELSE "_"]

\* the suffixes <base><digits> already in use
UsedSuffixes(base, used) ==
    {ParseInt(SubSeq(u, Len(base) + 1, Len(u))) :
       u \in {v \in used : /\ Len(v) > Len(base)
                           /\ StartsWithAt(v, 1, base)
                           /\ IsDigits(SubSeq(v, Len(base) + 1, Len(v)))}}

SetMax(S) == IF S = {} THEN 0 ELSE CHOOSE m \in S : \A x \in S : x <= m

\* the host's unique name: the text itself when free, else the text without
\* its trailing digits followed by the next free three-digit number
MakeUnique(text, used) ==
    IF text \notin used THEN text
    ELSE LET base == StripDigits(text)
         IN base \o Pad3(SetMax(UsedSuffixes(base, used)) + 1)

LabelsBut(d, id) == {d[i].Label : i \in Ids(d) \ {id}}
Names(d) == {d[i].Name : i \in Ids(d)}

\* obj.Label = text: the host keeps labels unique unless duplicates are allowed
SetLabel(d, id, text, dup) ==
    [d EXCEPT ![id].Label = IF dup THEN text ELSE MakeUnique(text, LabelsBut(d, id))]

\* obj.Label = text for the object created last
LabelLast(d, text, dup) == SetLabel(d, Len(d), text, dup)

\* the host labels a new object by its name
LabelByName(d, dup) == LabelLast(d, d[Len(d)].Name, dup)

\* doc.addObject(type, name): a new object with a unique name, labelled by it
addObject(d, type, name, dup) ==
    LabelByName(Append(d, [BlankObject(type) EXCEPT
                             !.Name = MakeUnique(CleanName(name), Names(d))]), dup)

\* doc.ActiveObject: the object created last (0 = None)
ActiveObject(d) == Len(d)

\* the positions of x in sequence s
RECURSIVE Without(_, _)
Without(s, x) == IF s = <<>> THEN <<>>
                 ELSE IF Head(s) = x THEN Without(Tail(s), x)
                 ELSE <<Head(s)>> \o Without(Tail(s), x)

Contains(s, x) == \E i \in 1..Len(s) : s[i] = x

\* the group an object is a member of (0 = none)
Parent(d, id) ==
    IF \E g \in Ids(d) : Contains(d[g].Group, id)
    THEN CHOOSE g \in Ids(d) : Contains(d[g].Group, id)
    ELSE 0

\* group.removeObject(obj)
removeObject(d, g, id) == [d EXCEPT ![g].Group = Without(@, id)]

\* group.addObject(obj): an object is a member of one group at most
groupAddObject(d, g, id) ==
    IF Contains(d[g].Group, id) THEN d
    ELSE LET p == Parent(d, id)
             d1 == IF p # 0 THEN removeObject(d, p, id) ELSE d
         IN [d1 EXCEPT ![g].Group = Append(@, id)]

\* the object created last is a link to obj
LinkLast(d, obj) == [d EXCEPT ![Len(d)].LinkedObject = obj]

\* Gui.runCommand('Std_LinkMake') / ('Std_LinkMakeRelative') with obj selected:
\* a new App::Link to obj, which becomes the active object
LinkMake(d, obj, dup) == LinkLast(addObject(d, TLink, T_LinkName, dup), obj)

\* the host takes an input of a boolean operation out of its group
Detach(d, id) == IF Parent(d, id) # 0 THEN removeObject(d, Parent(d, id), id) ELSE d

\* the object created last is the cut of base by tool: the host hides both
\* inputs, takes them out of their group and puts the cut into group target
CutLast(d, base, tool, target) ==
    LET cut == Len(d)
        taken == Detach(Detach([d EXCEPT ![cut].Base = base, ![cut].Tool = tool,
                                         ![base].Visibility = FALSE,
                                         ![tool].Visibility = FALSE],
                               base), tool)
    IN IF target # 0 THEN groupAddObject(taken, target, cut) ELSE taken

\* Gui.runCommand('Part_Cut') with base and tool selected: a new Part::Cut of
\* the two, placed in the group the inputs came from
PartCut(d, base, tool, dup) ==
    CutLast(addObject(d, TCut, T_CutName, dup), base, tool,
            IF Parent(d, tool) # 0 THEN Parent(d, tool) ELSE Parent(d, base))

----------------------------------------------------------------------------
(* The document the macro is started on: a plane, an assembly of a body    *)
(* and a link to that body, and an assembly without children.              *)

PlaneId == 1
PartId == 2
BodyId == 3
BodyLinkId == 4
EmptyPartId == 5

InitialDocument ==
    << [BlankObject(TPlane) EXCEPT !.Name = <<"P","l","a","n","e">>,
                                   !.Label = <<"X","Y">>],
       [BlankObject(TPart) EXCEPT !.Name = <<"P","a","r","t">>,
                                  !.Label = <<"A","s","m">>,
                                  !.Group = <<BodyId, BodyLinkId>>],
       [BlankObject(TPDBody) EXCEPT !.Name = <<"B","o","d","y">>,
                                    !.Label = <<"B","o","d","y">>],
       [BlankObject(TLink) EXCEPT !.Name = <<"L","i","n","k">>,
                                  !.Label = <<"B","_","L","i","n","k">>,
                                  !.LinkedObject = BodyId],
       [BlankObject(TPart) EXCEPT !.Name = <<"P","a","r","t","0","0","1">>,
                                  !.Label = <<"E","m","p","t","y">>] >>

\* what the user can pick as the plane and as the body
PlaneChoices == {PlaneId}
BodyChoices == {PartId, EmptyPartId}

----------------------------------------------------------------------------
(* Console messages and dialogs: what a stage reports *)

Msg(kind, obj) == [k |-> kind, o |-> obj]

\* the result of a stage: the document it leaves and what it reported
Result(d, msgs) == [d |-> d, m |-> msgs]

\* the first of the objects ids in document order (0 = none), as a for loop
\* over doc.Objects with break finds it
FirstId(ids) ==
    IF ids # {}
    THEN CHOOSE i \in ids : \A j \in ids : i <= j
    ELSE 0

\* the first element of sequence s that is one of ids (0 = none)
FirstIn(s, ids) ==
    IF \E i \in 1..Len(s) : s[i] \in ids
    THEN s[CHOOSE i \in 1..Len(s) : s[i] \in ids /\ \A j \in 1..(i - 1) : s[j] \notin ids]
    ELSE 0

----------------------------------------------------------------------------
(* Create_Cutviews.group_state *)

\* the group object named Cut_<letter> (0 = none)
FindCutGroup(d, letter) ==
    FirstId({i \in Ids(d) : d[i].TypeId = TGroup /\ d[i].Name = T_Cut \o letter})

\* a classifier that reports has_cuts only when every member is a cut result
group_state_AllCuts(d, letter) ==
    LET group == FindCutGroup(d, letter)
    IN IF group = 0 THEN "no_group"
       ELSE IF d[group].Group = <<>> THEN "empty"
       ELSE LET members == d[group].Group
                has_cuts == \A i \in 1..Len(members) : d[members[i]].TypeId = TCut
                only_links == \A i \in 1..Len(members) : d[members[i]].TypeId = TLink
            IN IF has_cuts THEN "has_cuts"
               ELSE IF only_links THEN "only_links"
               ELSE "other"

group_state(d, letter) ==
    LET group == FindCutGroup(d, letter)
    IN IF group = 0 THEN "no_group"
       ELSE IF d[group].Group = <<>> THEN "empty"
       ELSE LET members == d[group].Group
                has_cuts == \E i \in 1..Len(members) : d[members[i]].TypeId = TCut
                only_links == \A i \in 1..Len(members) : d[members[i]].TypeId = TLink
            IN IF has_cuts THEN "has_cuts"
               ELSE IF only_links THEN "only_links"
               ELSE "other"

----------------------------------------------------------------------------
(* A020_create_group_structure *)

\* the root group, found by its label
FindRootByLabel(d) ==
    FirstId({i \in Ids(d) : d[i].TypeId = TGroup /\ d[i].Label = group_label})

ValidLetter(letter) == Len(Strip(letter)) = 1

\* the root group of the document, created when no group carries its label:
\* the document, the message and the group
RootMade(d) == [d |-> d, m |-> <<Msg("root_created", Len(d))>>, root |-> Len(d)]

FindOrMakeRoot(d, dup) ==
    IF FindRootByLabel(d) # 0
    THEN [d |-> d, m |-> <<>>, root |-> FindRootByLabel(d)]
    ELSE RootMade(LabelLast(addObject(d, TGroup, T_AllCutviews, dup), group_label, dup))

\* the group created last is labelled and joins the root group
CutGroupMade(d, m, all_cutviews_group, cut_group_label, dup) ==
    Result(groupAddObject(LabelLast(d, cut_group_label, dup), all_cutviews_group, Len(d)),
           m \o <<Msg("group_created", Len(d))>>)

\* the part of the builder after the root group is there
MakeCutGroup(r, sel_letter, dup) ==
    IF ~ValidLetter(sel_letter)
    THEN Result(r.d, r.m \o <<Msg("err_no_valid_letter", 0)>>)
    ELSE LET cut_letter == Strip(sel_letter)
             cut_group_label == T_Cut \o cut_letter
             existing == FirstIn(r.d[r.root].Group,
                                 {o \in Ids(r.d) : /\ r.d[o].TypeId = TGroup
                                                    /\ r.d[o].Label = cut_group_label})
         IN IF existing # 0
            THEN Result(r.d, r.m \o <<Msg("already_exists", existing)>>)
            ELSE CutGroupMade(addObject(r.d, TGroup, cut_group_label, dup), r.m,
                              r.root, cut_group_label, dup)

A020_create_group_structure(d, sel_letter, dup) ==
    MakeCutGroup(FindOrMakeRoot(d, dup), sel_letter, dup)

----------------------------------------------------------------------------
(* A030_create_links *)

ContainerTypes == {TAssembly, TAssemblyObject, TPart}   \* allowed_types[:3]
BodyTypes == {TPDBody, TBody}
LinkTypes == {TLink, TLinkSub}

\* obj.OutList of a container: its children
OutList(d, obj) == d[obj].Group

\* collect(obj): the leaf solids under obj, in traversal order
RECURSIVE collect(_, _)
RECURSIVE collectEach(_, _)
collect(d, obj) ==
    LET t == d[obj].TypeId
    IN IF t \in ContainerTypes THEN collectEach(d, OutList(d, obj))
       ELSE IF t \in BodyTypes \cup {TFeature}
            THEN IF t # TFeature \/ d[obj].HasSolids THEN <<obj>> ELSE <<>>
       ELSE IF t \in LinkTypes
            THEN LET linked == d[obj].LinkedObject
                 IN IF linked # 0 /\ d[linked].TypeId \in BodyTypes
                    THEN <<obj>> ELSE <<>>
       ELSE <<>>
collectEach(d, children) ==
    IF children = <<>> THEN <<>>
    ELSE collect(d, Head(children)) \o collectEach(d, Tail(children))

\* f'{letter}{idx+1:03d}_Link_{obj.Label}'
LinkLabel(letter, idx, src_label) ==
    letter \o Pad3(idx + 1) \o T_Link \o <<"_">> \o src_label

\* obj.ViewObject.Visibility = False, for the bodies only
HideIfBody(d, obj) ==
    IF d[obj].TypeId \in BodyTypes THEN [d EXCEPT ![obj].Visibility = FALSE] ELSE d

\* the active object, when it is a link, is labelled and joins the group
PlaceLink(d, obj, idx, letter, group, dup) ==
    LET sub_link == ActiveObject(d)
    IN IF sub_link # 0 /\ d[sub_link].TypeId = TLink
       THEN groupAddObject(SetLabel(d, sub_link, LinkLabel(letter, idx, d[obj].Label), dup),
                           group, sub_link)
       ELSE d

\* one turn of the loop over enumerate(solids)
MakeOneLink(d, obj, idx, letter, group, dup) ==
    PlaceLink(HideIfBody(LinkMake(d, obj, dup), obj), obj, idx, letter, group, dup)

RECURSIVE MakeLinks(_, _, _, _, _, _)
MakeLinks(d, solids, idx, letter, group, dup) ==
    IF idx >= Len(solids) THEN d
    ELSE MakeLinks(MakeOneLink(d, solids[idx + 1], idx, letter, group, dup),
                   solids, idx + 1, letter, group, dup)

\* the letter the link generator works with
LinkLetter(sel_letter, combo) ==
    IF ValidLetter(sel_letter) THEN Strip(sel_letter) ELSE combo

\* the group named Cut_<letter>, created when there is none: the document
\* and the group
GroupMade(d) == [d |-> d, group |-> Len(d)]

FindOrMakeGroup(d, group_name, letter, dup) ==
    IF FindCutGroup(d, letter) # 0
    THEN [d |-> d, group |-> FindCutGroup(d, letter)]
    ELSE GroupMade(LabelLast(addObject(d, TGroup, group_name, dup), group_name, dup))

\* the part of the generator after the group is there
LinkSolids(g, body, letter, dup) ==
    IF collect(g.d, body) = <<>> THEN Result(g.d, <<Msg("err_no_solids", 0)>>)
    ELSE Result(MakeLinks(g.d, collect(g.d, body), 0, letter, g.group, dup), <<>>)

A030_create_links(d, body, sel_letter, combo, dup) ==
    IF body = 0 THEN Result(d, <<Msg("err_select_body", 0)>>)
    ELSE LinkSolids(FindOrMakeGroup(d, T_Cut \o LinkLetter(sel_letter, combo),
                                    LinkLetter(sel_letter, combo), dup),
                    body, LinkLetter(sel_letter, combo), dup)

----------------------------------------------------------------------------
(* A040_create_cubes *)

\* body.addObject(obj) / body.newObject(type, name)
bodyAddObject(d, body, obj) == groupAddObject(d, body, obj)

\* body.newObject(type, name): a new object of the document, added to the body
AddLastTo(d, body) == bodyAddObject(d, body, Len(d))
newObject(d, body, type, name, dup) == AddLastTo(addObject(d, type, name, dup), body)

\* the sketch created last: a square of edge size, attached to the plane
SketchLast(d, plane, size) == [d EXCEPT ![Len(d)].Size = size, ![Len(d)].Attached = plane]

\* the pad created last: the sketch, extruded by size
PadLast(d, sketch, size) == [d EXCEPT ![Len(d)].Base = sketch, ![Len(d)].Size = size]

\* pad = body_front.newObject('PartDesign::Pad', 'Pad') of the sketch created last
PadSketch(d, body_front, size, dup) ==
    PadLast(newObject(d, body_front, TPadType, T_Pad, dup), Len(d), size)

\* the sketch and the pad of the body created last
FillBody(d, plane, size, dup) ==
    PadSketch(SketchLast(AddLastTo(addObject(d, TSketch, T_CenteredRectangle, dup), Len(d)),
                         plane, size),
              Len(d), size, dup)

\* An exception raised by the host while a cube is constructed: which cube of
\* the run (0 = none), after which step (1 = the body was added, 2 = the
\* sketch was added to the body, 3 = the pad was added to the body), and
\* whether the host has a transaction open that doc.abortTransaction() undoes.
NoFault == [cube |-> 0, at |-> 0, undo |-> FALSE]
FaultyCubes == 1..2
FaultSteps == 1..3
Faults == [cube : FaultyCubes, at : FaultSteps, undo : BOOLEAN]

\* the try block up to the step at which the exception is raised
Constructed(d, plane, cube_front_label, rect_size, dup, at) ==
    IF at = 1 THEN addObject(d, TPDBody, cube_front_label, dup)
    ELSE IF at = 2
    THEN AddLastTo(addObject(addObject(d, TPDBody, cube_front_label, dup),
                             TSketch, T_CenteredRectangle, dup),
                   Len(d) + 1)
    ELSE newObject(SketchLast(AddLastTo(addObject(addObject(d, TPDBody, cube_front_label, dup),
                                                  TSketch, T_CenteredRectangle, dup),
                                        Len(d) + 1),
                              plane, rect_size),
                   Len(d) + 1, TPadType, T_Pad, dup)

\* except Exception: doc.abortTransaction(); return
Aborted(d, partial, undo) == IF undo THEN d ELSE partial

\* create_rectangle_sketch: a body named after the cube label, holding a
\* square sketch of edge rect_size on the plane and its pad of the same length
create_rectangle_sketch(d, plane, cube_front_label, rect_size, dup, at, undo) ==
    IF plane = 0 THEN d
    ELSE IF at = 0
    THEN FillBody(addObject(d, TPDBody, cube_front_label, dup), plane, rect_size, dup)
    ELSE Aborted(d, Constructed(d, plane, cube_front_label, rect_size, dup, at), undo)

\* f"{letter}{i+1:03d}_Cutcube"
CubeLabel(letter, i) == letter \o Pad3(i + 1) \o T_Cutcube

\* for obj in new_objs: the bodies among them join the group
RECURSIVE AddNewBodies(_, _, _, _)
AddNewBodies(d, group, from, to) ==
    IF from > to THEN d
    ELSE AddNewBodies(IF d[from].TypeId = TPDBody
                      THEN groupAddObject(d, group, from) ELSE d,
                      group, from + 1, to)

\* new_objs = after_objs - before_objs: the objects after the first `before`
JoinNewBodies(d, group, before) == AddNewBodies(d, group, before + 1, Len(d))

\* the step at which the construction of cube i + 1 is interrupted (0 = none)
FaultAt(fault, i) == IF fault.cube = i + 1 THEN fault.at ELSE 0

RECURSIVE MakeCubes(_, _, _, _, _, _, _, _, _)
MakeCubes(d, i, count, letter, plane, size, group, dup, fault) ==
    IF i >= count THEN d
    ELSE MakeCubes(JoinNewBodies(create_rectangle_sketch(d, plane, CubeLabel(letter, i),
                                                         size, dup, FaultAt(fault, i),
                                                         fault.undo),
                                 group, Len(d)),
                   i + 1, count, letter, plane, size, group, dup, fault)

\* App.Console.PrintError(f"Failed to create rectangle: ..."), for the cube
\* whose construction raised
Failures(count, fault) ==
    IF fault.cube \in 1..count THEN <<Msg("err_rectangle", fault.cube)>> ELSE <<>>

\* the root group, found by its name
FindRootByName(d) ==
    FirstId({i \in Ids(d) : d[i].TypeId = TGroup /\ d[i].Name = T_AllCutviews})

IsLink(d, o) == d[o].TypeId = TLink

A040_create_cubes(d, plane, combo, size_text, dup, fault) ==
    IF plane = 0 THEN Result(d, <<Msg("err_select_plane", 0)>>)
    ELSE
    LET letter == combo
        size == cube_size(size_text)
        all_group == FindRootByName(d)
    IN IF all_group = 0 THEN Result(d, <<Msg("err_no_root", 0)>>)
       ELSE
       LET group_name == T_Cut \o letter
           group == FirstIn(d[all_group].Group,
                            {o \in Ids(d) : d[o].TypeId = TGroup /\ d[o].Name = group_name})
       IN IF group = 0 THEN Result(d, <<Msg("err_no_group_in_root", 0)>>)
          ELSE
          LET links == SelectSeq(d[group].Group, LAMBDA o : IsLink(d, o))
              count == Len(links)
          IN IF count = 0 THEN Result(d, <<Msg("err_no_links", group)>>)
             ELSE Result(MakeCubes(d, 0, count, letter, plane, size, group, dup, fault),
                         Failures(count, fault))

----------------------------------------------------------------------------
(* A050_create_cuts *)

\* re.match(r"([A-Z]\d+)_Link", link_label): group 1, or <<>> without a match
LinkPrefix(link_label) ==
    IF link_label = <<>> \/ link_label[1] \notin Upper THEN <<>>
    ELSE LET n == DigitRun(link_label, 2)
         IN IF n >= 1 /\ StartsWithAt(link_label, n + 2, T_Link)
            THEN SubSeq(link_label, 1, n + 1) ELSE <<>>

\* link_label.replace('_Link', '_Cut_[') + "]"
CutLabel(link_label) == Replace(link_label, T_Link, T_CutOpen) \o T_Close

\* the object carrying the label (0 = none)
FindByLabel(d, label) == FirstId({i \in Ids(d) : d[i].Label = label})

\* the active object, when there is one, takes the cut label
LabelCut(d, msgs, cut_label, dup) ==
    LET cut_obj == ActiveObject(d)
    IN IF cut_obj # 0
       THEN Result(SetLabel(d, cut_obj, cut_label, dup), Append(msgs, Msg("created", cut_obj)))
       ELSE Result(d, msgs)

\* the part of a turn after the cube was looked up
CutPair(r, sublink, cube_obj, dup) ==
    IF cube_obj = 0
    THEN Result(r.d, Append(r.m, Msg("warn_no_cube", sublink)))
    ELSE LabelCut(PartCut(r.d, sublink, cube_obj, dup), r.m,
                  CutLabel(r.d[sublink].Label), dup)

\* one turn of the loop over sub_links
CutOne(r, sublink, dup) ==
    LET link_label == r.d[sublink].Label
        prefix == LinkPrefix(link_label)
        cube_label == prefix \o T_Cutcube
    IN IF prefix = <<>>
       THEN Result(r.d, Append(r.m, Msg("warn_no_prefix", sublink)))
       ELSE CutPair(r, sublink, FindByLabel(r.d, cube_label), dup)

\* a loop that gives up at the first proxy it cannot pair
RECURSIVE CutEach_Aborting(_, _, _)
CutEach_Aborting(r, sub_links, dup) ==
    IF sub_links = <<>> THEN r
    ELSE LET n == CutOne(r, Head(sub_links), dup)
         IN IF n.d = r.d THEN n ELSE CutEach_Aborting(n, Tail(sub_links), dup)

RECURSIVE CutEach(_, _, _)
CutEach(r, sub_links, dup) ==
    IF sub_links = <<>> THEN r
    ELSE CutEach(CutOne(r, Head(sub_links), dup), Tail(sub_links), dup)

A050_create_cuts(d, sub_links, letter, num_cubes, dup) ==
    CutEach(Result(d, <<>>), sub_links, dup)

\* the caller's sub_links: the links of the group named Cut_<letter>
SubLinks(d, letter) ==
    LET group == FindCutGroup(d, letter)
    IN IF group # 0 THEN SelectSeq(d[group].Group, LAMBDA o : IsLink(d, o)) ELSE <<>>

\* self.selected_body.ViewObject.Visibility = False
HideBody(d, body) == IF body # 0 THEN [d EXCEPT ![body].Visibility = FALSE] ELSE d

----------------------------------------------------------------------------
(* The handlers of the task panel, as functions of the panel and document: *)
(* the document left, the messages, the classified state, the letter the   *)
(* state was classified for and the stages invoked, in order.              *)

Outcome(d, msgs, state, letter, stages) ==
    [d |-> d, m |-> msgs, state |-> state, letter |-> letter, stages |-> stages]

\* the outcome of a handler whose stages left r
Staged(r, state, letter, stages) == Outcome(r.d, r.m, state, letter, stages)

\* the same, the handler hiding the selected body at its end
StagedHidden(r, body, state, letter, stages) ==
    Outcome(HideBody(r.d, body), r.m, state, letter, stages)

\* the cut executor as both callers invoke it: on the links of Cut_<letter>
RunCuts(d, letter, dup) ==
    LET sub_links == SubLinks(d, letter)
        num_cubes == Len(sub_links)
        next_letter == letter
    IN A050_create_cuts(d, sub_links, next_letter, num_cubes, dup)

handle_create_group_structure(d, sel_letter, combo, dup) ==
    LET letter == combo
        state == group_state(d, letter)
    IN IF state = "has_cuts"
       THEN Outcome(d, <<Msg("err_has_cuts", 0)>>, state, letter, <<>>)
       ELSE IF state = "no_group" \/ state = "empty"
       THEN Staged(A020_create_group_structure(d, sel_letter, dup), state, letter,
                   <<"A020">>)
       ELSE Outcome(d, <<>>, state, letter, <<>>)

\* a link handler without the has_cuts rejection
handle_create_links_Unguarded(d, body, sel_letter, combo, dup) ==
    LET letter == combo
        state == group_state(d, letter)
    IN IF state = "only_links"
       THEN Outcome(d, <<Msg("already_links", 0)>>, state, letter, <<>>)
       ELSE IF state \in {"no_group", "empty", "has_cuts"}
       THEN Staged(A030_create_links(d, body, sel_letter, combo, dup), state, letter,
                   <<"A030">>)
       ELSE Outcome(d, <<>>, state, letter, <<>>)

handle_create_links(d, body, sel_letter, combo, dup) ==
    LET letter == combo
        state == group_state(d, letter)
    IN IF state = "has_cuts"
       THEN Outcome(d, <<Msg("err_has_cuts", 0)>>, state, letter, <<>>)
       ELSE IF state = "only_links"
       THEN Outcome(d, <<Msg("already_links", 0)>>, state, letter, <<>>)
       ELSE IF state = "no_group" \/ state = "empty"
       THEN Staged(A030_create_links(d, body, sel_letter, combo, dup), state, letter,
                   <<"A030">>)
       ELSE Outcome(d, <<>>, state, letter, <<>>)

handle_create_cube(d, plane, combo, size_text, dup, fault) ==
    LET letter == combo
        state == group_state(d, letter)
    IN IF state = "has_cuts"
       THEN Outcome(d, <<Msg("err_has_cuts", 0)>>, state, letter, <<>>)
       ELSE IF state = "no_group"
       THEN Outcome(d, <<Msg("err_no_group", 0)>>, state, letter, <<>>)
       ELSE Staged(A040_create_cubes(d, plane, combo, size_text, dup, fault), state, letter,
                   <<"A040">>)

handle_do_cuts(d, body, combo, dup) ==
    LET letter == combo
        state == group_state(d, letter)
    IN IF state = "has_cuts"
       THEN Outcome(d, <<Msg("err_has_cuts", 0)>>, state, letter, <<>>)
       ELSE IF state = "no_group"
       THEN Outcome(d, <<Msg("err_no_group", 0)>>, state, letter, <<>>)
       ELSE StagedHidden(RunCuts(d, letter, dup), body, state, letter, <<"A050">>)

\* a stage of the full sequence, run on the document the stages before it
\* left, its messages following theirs
After(r, s) == Result(s.d, r.m \o s.m)

GroupStage(r, sel_letter, dup) ==
    After(r, A020_create_group_structure(r.d, sel_letter, dup))

LinkStage(r, body, sel_letter, combo, dup) ==
    After(r, A030_create_links(r.d, body, sel_letter, combo, dup))

CubeStage(r, plane, combo, size_text, dup, fault) ==
    After(r, A040_create_cubes(r.d, plane, combo, size_text, dup, fault))

CutStage(r, letter, dup) == After(r, RunCuts(r.d, letter, dup))

\* a full sequence that builds the group and the links whatever the state
handle_do_all_AlwaysBuild(d, plane, body, sel_letter, combo, size_text, dup, fault) ==
    IF plane = 0
    THEN Outcome(d, <<Msg("err_select_plane_first", 0)>>, "unclassified", NoLetter, <<>>)
    ELSE IF body = 0
    THEN Outcome(d, <<Msg("err_select_body_first", 0)>>, "unclassified", NoLetter, <<>>)
    ELSE
    LET letter == sel_letter
    IN IF letter = NoLetter \/ letter = BlankEntry
       THEN Outcome(d, <<Msg("err_store_letter", 0)>>, "unclassified", letter, <<>>)
       ELSE
       LET state == group_state(d, letter)
       IN IF state = "has_cuts"
          THEN Outcome(d, <<Msg("err_has_cuts", 0)>>, state, letter, <<>>)
          ELSE StagedHidden(
                 CutStage(
                   CubeStage(
                     LinkStage(GroupStage(Result(d, <<>>), sel_letter, dup),
                               body, sel_letter, combo, dup),
                     plane, combo, size_text, dup, fault),
                   letter, dup),
                 body, state, letter, <<"A020", "A030", "A040", "A050">>)

\* a full sequence without the has_cuts rejection
handle_do_all_Unguarded(d, plane, body, sel_letter, combo, size_text, dup, fault) ==
    IF plane = 0
    THEN Outcome(d, <<Msg("err_select_plane_first", 0)>>, "unclassified", NoLetter, <<>>)
    ELSE IF body = 0
    THEN Outcome(d, <<Msg("err_select_body_first", 0)>>, "unclassified", NoLetter, <<>>)
    ELSE
    LET letter == sel_letter
    IN IF letter = NoLetter \/ letter = BlankEntry
       THEN Outcome(d, <<Msg("err_store_letter", 0)>>, "unclassified", letter, <<>>)
       ELSE
       LET state == group_state(d, letter)
           build == state = "no_group" \/ state = "empty"
       IN StagedHidden(
            CutStage(
              CubeStage(
                IF build
                THEN LinkStage(GroupStage(Result(d, <<>>), sel_letter, dup),
                               body, sel_letter, combo, dup)
                ELSE Result(d, <<>>),
                plane, combo, size_text, dup, fault),
              letter, dup),
            body, state, letter,
            (IF build THEN <<"A020", "A030">> ELSE <<>>) \o <<"A040", "A050">>)

handle_do_all(d, plane, body, sel_letter, combo, size_text, dup, fault) ==
    IF plane = 0
    THEN Outcome(d, <<Msg("err_select_plane_first", 0)>>, "unclassified", NoLetter, <<>>)
    ELSE IF body = 0
    THEN Outcome(d, <<Msg("err_select_body_first", 0)>>, "unclassified", NoLetter, <<>>)
    ELSE
    LET letter == sel_letter
    IN IF letter = NoLetter \/ letter = BlankEntry
       THEN Outcome(d, <<Msg("err_store_letter", 0)>>, "unclassified", letter, <<>>)
       ELSE
       LET state == group_state(d, letter)
           build == state = "no_group" \/ state = "empty"
       IN IF state = "has_cuts"
          THEN Outcome(d, <<Msg("err_has_cuts", 0)>>, state, letter, <<>>)
          ELSE StagedHidden(
                 CutStage(
                   CubeStage(
                     IF build
                     THEN LinkStage(GroupStage(Result(d, <<>>), sel_letter, dup),
                                    body, sel_letter, combo, dup)
                     ELSE Result(d, <<>>),
                     plane, combo, size_text, dup, fault),
                   letter, dup),
                 body, state, letter,
                 (IF build THEN <<"A020", "A030">> ELSE <<>>) \o <<"A040", "A050">>)

----------------------------------------------------------------------------
(* The state machine *)

Idle == [op |-> "none", letter |-> NoLetter, state |-> "unclassified",
         stages |-> <<>>, msgs |-> <<>>, n0 |-> 0, raised |-> FALSE]

\* the texts of a display field: "No plane selected" / "No body selected",
\* "Please select a ... in the tree or 3D view...", "<Label> is not a ...",
\* and f"{obj.Name} - {obj.Label}"
NoneSelected == [k |-> "none", text |-> <<>>]
PleaseSelect == [k |-> "prompt", text |-> <<>>]
IsNotA(d, obj) == [k |-> "error", text |-> d[obj].Label]
NameLabel(d, obj) == [k |-> "shown", text |-> d[obj].Name \o <<" ", "-", " ">> \o d[obj].Label]

\* the display field of a slot outside a selection
Display(d, selected) == IF selected = 0 THEN NoneSelected ELSE NameLabel(d, selected)

\* no selector armed, nothing selected, no polling loop running
SelectorsInit ==
    /\ plane_select_button_held = FALSE
    /\ body_select_button_held = FALSE
    /\ selection = 0
    /\ loops = <<>>
    /\ pc = "events"
    /\ line_edit = Display(doc, selected_plane)
    /\ body_line_edit = Display(doc, selected_body)

\* what a handler call leaves behind: the document, and the record of the call
\* Without an active document a handler that gets as far as group_state
\* reads doc.Objects of None: the AttributeError leaves the handler.
Ran(op, out) ==
    /\ pc = "events"
    /\ IF ActiveDocument \/ out.state = "unclassified"
       THEN /\ Len(out.d) <= MaxObjects
            /\ out.d # doc => calls < MaxCalls
            /\ doc' = out.d
            /\ calls' = IF out.d # doc THEN calls + 1 ELSE calls
            /\ last' = [op |-> op, letter |-> out.letter, state |-> out.state,
                        stages |-> out.stages, msgs |-> out.m, n0 |-> Len(doc),
                        raised |-> FALSE]
       ELSE /\ doc' = doc
            /\ calls' = calls
            /\ last' = [op |-> op, letter |-> out.letter, state |-> "unclassified",
                        stages |-> <<>>, msgs |-> <<>>, n0 |-> Len(doc),
                        raised |-> TRUE]
    /\ UNCHANGED <<ActiveDocument, selectors>>

Init ==
    /\ doc = InitialDocument
    /\ DuplicateLabels = FALSE
    /\ selected_plane = 0
    /\ selected_body = 0
    /\ selected_letter = NoLetter
    /\ letter_combo = BlankEntry
    /\ size_input = DefaultSize
    /\ last = Idle
    /\ calls = 0
    /\ ActiveDocument = TRUE
    /\ SelectorsInit

\* the user picks an entry of the letter dropdown
ChooseLetter ==
    /\ \E c \in ComboItems : c # letter_combo /\ letter_combo' = c
    /\ last' = Idle
    /\ UNCHANGED <<doc, DuplicateLabels, selected_plane, selected_body,
                   selected_letter, size_input, calls>>
    /\ UNCHANGED <<ActiveDocument, selectors>>

\* the user picks an entry of the size dropdown
ChooseSize ==
    /\ \E t \in SizeItems : t # size_input /\ size_input' = t
    /\ last' = Idle
    /\ UNCHANGED <<doc, DuplicateLabels, selected_plane, selected_body,
                   selected_letter, letter_combo, calls>>
    /\ UNCHANGED <<ActiveDocument, selectors>>

\* select_plane accepts a picked plane
AcceptPlane ==
    /\ \E obj \in PlaneChoices :
         /\ doc[obj].TypeId \in {TPlane, TDatumPlane}
         /\ obj # selected_plane
         /\ selected_plane' = obj
         /\ line_edit' = NameLabel(doc, obj)
    /\ last' = Idle
    /\ UNCHANGED <<doc, DuplicateLabels, selected_body, selected_letter,
                   letter_combo, size_input, calls>>
    /\ UNCHANGED <<ActiveDocument, plane_select_button_held, body_select_button_held,
                   selection, loops, pc, body_line_edit>>

\* select_body accepts a picked body
AcceptBody ==
    /\ \E obj \in BodyChoices :
         /\ doc[obj].TypeId \in ContainerTypes \cup BodyTypes \cup LinkTypes
         /\ obj # selected_body
         /\ selected_body' = obj
         /\ body_line_edit' = NameLabel(doc, obj)
    /\ last' = Idle
    /\ UNCHANGED <<doc, DuplicateLabels, selected_plane, selected_letter,
                   letter_combo, size_input, calls>>
    /\ UNCHANGED <<ActiveDocument, plane_select_button_held, body_select_button_held,
                   selection, loops, pc, line_edit>>

StoreLetter ==
    /\ selected_letter' = IF letter_combo = BlankEntry THEN NoLetter ELSE letter_combo
    /\ selected_letter' # selected_letter
    /\ last' = Idle
    /\ UNCHANGED <<doc, DuplicateLabels, selected_plane, selected_body,
                   letter_combo, size_input, calls>>
    /\ UNCHANGED <<ActiveDocument, selectors>>

panel == <<DuplicateLabels, selected_plane, selected_body, selected_letter,
           letter_combo, size_input>>

CreateGroupStructure ==
    /\ Ran("group", handle_create_group_structure(doc, selected_letter, letter_combo,
                                                  DuplicateLabels))
    /\ UNCHANGED panel

CreateLinks ==
    /\ Ran("links", handle_create_links(doc, selected_body, selected_letter,
                                        letter_combo, DuplicateLabels))
    /\ UNCHANGED panel

CreateCube ==
    /\ Ran("cubes", handle_create_cube(doc, selected_plane, letter_combo, size_input,
                                       DuplicateLabels, NoFault))
    /\ UNCHANGED panel

\* build cubes, the host raising while one of the cubes is constructed
CreateCubeRaising ==
    /\ calls < MaxRaisingCalls
    /\ \E fault \in Faults :
         Ran("cubes", handle_create_cube(doc, selected_plane, letter_combo, size_input,
                                         DuplicateLabels, fault))
    /\ UNCHANGED panel

DoCuts ==
    /\ Ran("cuts", handle_do_cuts(doc, selected_body, letter_combo, DuplicateLabels))
    /\ UNCHANGED panel

DoAll ==
    /\ Ran("all", handle_do_all(doc, selected_plane, selected_body, selected_letter,
                                letter_combo, size_input, DuplicateLabels, NoFault))
    /\ UNCHANGED panel

\* the full sequence, the host raising while one of the cubes is constructed
DoAllRaising ==
    /\ calls < MaxRaisingCalls
    /\ \E fault \in Faults :
         Ran("all", handle_do_all(doc, selected_plane, selected_body, selected_letter,
                                  letter_combo, size_input, DuplicateLabels, fault))
    /\ UNCHANGED panel

Next ==
    \/ ChooseLetter
    \/ AcceptPlane
    \/ AcceptBody
    \/ StoreLetter
    \/ CreateGroupStructure
    \/ CreateLinks
    \/ CreateCube
    \/ DoCuts
    \/ DoAll

Spec == Init /\ [][Next]_vars

\* Sessions on a panel filled in beforehand: any plane, body, stored letter,
\* dropdown letter, size and label preference; then the user clicks the
\* buttons and may pick another size in between.
PanelInit ==
    /\ doc = InitialDocument
    /\ DuplicateLabels \in BOOLEAN
    /\ selected_plane \in {0} \cup PlaneChoices
    /\ selected_body \in {0} \cup BodyChoices
    /\ selected_letter \in {NoLetter} \cup Letters
    /\ letter_combo \in ComboItems
    /\ size_input \in SizeItems
    /\ last = Idle
    /\ calls = 0
    /\ ActiveDocument = TRUE
    /\ SelectorsInit

PanelNext ==
    \/ ChooseSize
    \/ CreateGroupStructure
    \/ CreateLinks
    \/ CreateCube
    \/ DoCuts
    \/ DoAll

PanelSpec == PanelInit /\ [][PanelNext]_vars

\* The user edits the model tree between clicks: a proxy or a cube is given
\* another label in the host's property editor.
UserLabels == {<<"B","o","x">>}

MaxEdits == 2

Edited(d) == {i \in Ids(d) : StripDigits(d[i].Label) \in UserLabels}

Relabel ==
    /\ Cardinality(Edited(doc)) < MaxEdits
    /\ \E i \in Ids(doc) \ Edited(doc), text \in UserLabels :
         /\ i > Len(InitialDocument)
         /\ doc[i].TypeId \in {TLink, TPDBody}
         /\ doc' = SetLabel(doc, i, text, DuplicateLabels)
    /\ last' = Idle
    /\ UNCHANGED <<panel, calls, ActiveDocument, selectors>>

\* a document saved by an earlier session in which the group and the links
\* of each letter were built for the assembly
RECURSIVE LinkedFor(_, _)
LinkedFor(d, letters) ==
    IF letters = {} THEN d
    ELSE LET letter == CHOOSE l \in letters : TRUE
             grouped == handle_create_group_structure(d, letter, letter, FALSE).d
             linked == handle_create_links(grouped, PartId, letter, letter, FALSE).d
         IN LinkedFor(linked, letters \ {letter})

LinkedDocument == LinkedFor(InitialDocument, Letters)

EditInit ==
    /\ doc \in {InitialDocument, LinkedDocument}
    /\ DuplicateLabels = FALSE
    /\ selected_plane \in PlaneChoices
    /\ selected_body \in BodyChoices
    /\ selected_letter \in {NoLetter} \cup Letters
    /\ letter_combo \in ComboItems
    /\ size_input = DefaultSize
    /\ last = Idle
    /\ calls = 0
    /\ ActiveDocument = TRUE
    /\ SelectorsInit

EditNext ==
    \/ CreateGroupStructure
    \/ CreateLinks
    \/ CreateCube
    \/ DoCuts
    \/ DoAll
    \/ Relabel

EditSpec == EditInit /\ [][EditNext]_vars

\* Sessions on a document saved by an earlier session in which the group and
\* the links of a letter were built for one of the bodies: the user clicks
\* the buttons again, and may pick another size in between.
SavedDocument(body, letter) ==
    handle_create_links(
        handle_create_group_structure(InitialDocument, letter, letter, FALSE).d,
        body, letter, letter, FALSE).d

\* the bodies the earlier session may have built the links for: the
\* assembly, or the single body in it
SavedBodies == {PartId, BodyId}

SavedInit ==
    /\ doc \in {SavedDocument(body, letter) : body \in SavedBodies, letter \in Letters}
    /\ DuplicateLabels \in BOOLEAN
    /\ selected_plane \in {0} \cup PlaneChoices
    /\ selected_body \in BodyChoices
    /\ selected_letter \in {NoLetter} \cup Letters
    /\ letter_combo \in ComboItems
    /\ size_input = DefaultSize
    /\ last = Idle
    /\ calls = 0
    /\ ActiveDocument = TRUE
    /\ SelectorsInit

SavedNext ==
    \/ ChooseSize
    \/ CreateGroupStructure
    \/ CreateLinks
    \/ CreateCube
    \/ DoCuts
    \/ DoAll

SavedSpec == SavedInit /\ [][SavedNext]_vars

\* Sessions in which the host raises while cubes are constructed, on a
\* document in which the group and the links exist.
FaultInit ==
    /\ doc \in {SavedDocument(body, letter) : body \in SavedBodies, letter \in Letters}
    /\ DuplicateLabels = FALSE
    /\ selected_plane \in PlaneChoices
    /\ selected_body \in SavedBodies
    /\ selected_letter \in Letters
    /\ letter_combo = selected_letter
    /\ size_input = DefaultSize
    /\ last = Idle
    /\ calls = 0
    /\ ActiveDocument = TRUE
    /\ SelectorsInit

FaultNext ==
    \/ CreateCubeRaising
    \/ DoCuts
    \/ DoAllRaising

FaultSpec == FaultInit /\ [][FaultNext]_vars

\* Sessions in which the user closes the document while the panel stays
\* open, and goes on clicking the buttons.
CloseDocument ==
    /\ pc = "events"
    /\ ActiveDocument
    /\ ActiveDocument' = FALSE
    /\ last' = Idle
    /\ UNCHANGED <<doc, panel, calls, selectors>>

DocNext ==
    \/ CloseDocument
    \/ CreateGroupStructure
    \/ CreateLinks
    \/ CreateCube
    \/ DoCuts
    \/ DoAll

DocSpec == PanelInit /\ [][DocNext]_vars

----------------------------------------------------------------------------
(* The selectors: toggle_select_plane, select_plane, toggle_select_body,    *)
(* select_body.  A toggle that arms its selector enters a polling loop,     *)
(* which calls QApplication.processEvents(): clicks are delivered inside    *)
(* it, so that a toggle, and a further loop, can run within a loop.         *)

\* the deepest nesting of polling loops
MaxLoops == 3

\* a deactivation that resets no button
deactivate_none(held, button, except_button) == held

\* deactivate_all_select_buttons(except_button): the held flag of `button`
\* after the call
deactivate_all_select_buttons(held, button, except_button) ==
    IF button # except_button THEN FALSE ELSE held

\* deactivate_all_select_buttons(except_button): the display field of `button`
\* after the call; a stored selection keeps the field as it is
deactivated_text(text, selected, button, except_button) ==
    IF button # except_button /\ selected = 0 THEN NoneSelected ELSE text

allowed_plane_types == {TPlane, TDatumPlane}
allowed_types == ContainerTypes \cup BodyTypes \cup LinkTypes

\* a selection loop that accepts every type
accepts_any(d, obj, types) == TRUE

\* the negation of `if obj_type not in allowed_plane_types` / `allowed_types`
accepts(d, obj, types) == d[obj].TypeId \in types

\* the end of select_plane / select_body, after the while loop:
\* `if not self.selected_...: setText("No ... selected")`
after_loop(text, selected) == IF selected = 0 THEN NoneSelected ELSE text

Top(stack) == stack[Len(stack)]
Pop(stack) == SubSeq(stack, 1, Len(stack) - 1)

\* the user picks an object in the tree or the 3D view
Pick ==
    /\ pc = "events"
    /\ \E obj \in Ids(doc) : obj # selection /\ selection' = obj
    /\ UNCHANGED <<doc, panel, last, calls, ActiveDocument,
                   plane_select_button_held, body_select_button_held, loops, pc,
                   line_edit, body_line_edit>>

\* toggle_select_plane: the else branch, or the if branch up to and with
\* deactivate_all_select_buttons(except_button='plane')
TogglePlane ==
    /\ pc = "events"
    /\ IF ~plane_select_button_held
       THEN /\ Len(loops) < MaxLoops
            /\ plane_select_button_held' =
                 deactivate_all_select_buttons(plane_select_button_held, "plane", "plane")
            /\ body_select_button_held' =
                 deactivate_all_select_buttons(body_select_button_held, "body", "plane")
            /\ line_edit' = deactivated_text(line_edit, selected_plane, "plane", "plane")
            /\ body_line_edit' =
                 deactivated_text(body_line_edit, selected_body, "body", "plane")
            /\ pc' = "arm_plane"
            /\ UNCHANGED selected_plane
       ELSE /\ plane_select_button_held' = FALSE
            /\ selected_plane' = 0
            /\ line_edit' = NoneSelected
            /\ UNCHANGED <<body_select_button_held, pc, body_line_edit>>
    /\ UNCHANGED <<doc, DuplicateLabels, selected_body, selected_letter, letter_combo,
                   size_input, last, calls, ActiveDocument, selection, loops>>

\* toggle_select_plane: self.plane_select_button_held = True, and
\* select_plane() up to its first processEvents()
ArmPlane ==
    /\ pc = "arm_plane"
    /\ plane_select_button_held' = TRUE
    /\ line_edit' = PleaseSelect
    /\ selection' = 0
    /\ loops' = Append(loops, "plane")
    /\ pc' = "events"
    /\ UNCHANGED <<doc, panel, last, calls, ActiveDocument, body_select_button_held,
                   body_line_edit>>

\* select_plane: processEvents() returns, and the loop runs on to its next
\* processEvents() or to its end
PollPlane ==
    /\ pc = "events"
    /\ loops # <<>>
    /\ Top(loops) = "plane"
    /\ IF selection # 0
       THEN IF ~accepts(doc, selection, allowed_plane_types)
            THEN /\ selection' = 0
                 /\ loops' = IF plane_select_button_held THEN loops ELSE Pop(loops)
                 /\ line_edit' = IF plane_select_button_held
                                 THEN IsNotA(doc, selection)
                                 ELSE after_loop(IsNotA(doc, selection), selected_plane)
                 /\ UNCHANGED <<selected_plane, plane_select_button_held>>
            ELSE /\ selected_plane' = selection
                 /\ plane_select_button_held' = FALSE
                 /\ loops' = Pop(loops)
                 /\ line_edit' = after_loop(NameLabel(doc, selection), selection)
                 /\ UNCHANGED selection
       ELSE /\ ~plane_select_button_held
            /\ loops' = Pop(loops)
            /\ line_edit' = after_loop(line_edit, selected_plane)
            /\ UNCHANGED <<selected_plane, plane_select_button_held, selection>>
    /\ UNCHANGED <<doc, DuplicateLabels, selected_body, selected_letter, letter_combo,
                   size_input, last, calls, ActiveDocument, body_select_button_held, pc,
                   body_line_edit>>

\* toggle_select_body: the else branch, or the if branch up to and with
\* deactivate_all_select_buttons(except_button='body')
ToggleBody ==
    /\ pc = "events"
    /\ IF ~body_select_button_held
       THEN /\ Len(loops) < MaxLoops
            /\ plane_select_button_held' =
                 deactivate_all_select_buttons(plane_select_button_held, "plane", "body")
            /\ body_select_button_held' =
                 deactivate_all_select_buttons(body_select_button_held, "body", "body")
            /\ line_edit' = deactivated_text(line_edit, selected_plane, "plane", "body")
            /\ body_line_edit' =
                 deactivated_text(body_line_edit, selected_body, "body", "body")
            /\ pc' = "arm_body"
            /\ UNCHANGED selected_body
       ELSE /\ body_select_button_held' = FALSE
            /\ selected_body' = 0
            /\ body_line_edit' = NoneSelected
            /\ UNCHANGED <<plane_select_button_held, pc, line_edit>>
    /\ UNCHANGED <<doc, DuplicateLabels, selected_plane, selected_letter, letter_combo,
                   size_input, last, calls, ActiveDocument, selection, loops>>

\* toggle_select_body: self.body_select_button_held = True, and
\* select_body() up to its first processEvents()
ArmBody ==
    /\ pc = "arm_body"
    /\ body_select_button_held' = TRUE
    /\ body_line_edit' = PleaseSelect
    /\ selection' = 0
    /\ loops' = Append(loops, "body")
    /\ pc' = "events"
    /\ UNCHANGED <<doc, panel, last, calls, ActiveDocument, plane_select_button_held,
                   line_edit>>

\* select_body: processEvents() returns, and the loop runs on to its next
\* processEvents() or to its end
PollBody ==
    /\ pc = "events"
    /\ loops # <<>>
    /\ Top(loops) = "body"
    /\ IF selection # 0
       THEN IF ~accepts(doc, selection, allowed_types)
            THEN /\ selection' = 0
                 /\ loops' = IF body_select_button_held THEN loops ELSE Pop(loops)
                 /\ body_line_edit' = IF body_select_button_held
                                      THEN IsNotA(doc, selection)
                                      ELSE after_loop(IsNotA(doc, selection), selected_body)
                 /\ UNCHANGED <<selected_body, body_select_button_held>>
            ELSE /\ selected_body' = selection
                 /\ body_select_button_held' = FALSE
                 /\ loops' = Pop(loops)
                 /\ body_line_edit' = after_loop(NameLabel(doc, selection), selection)
                 /\ UNCHANGED selection
       ELSE /\ ~body_select_button_held
            /\ loops' = Pop(loops)
            /\ body_line_edit' = after_loop(body_line_edit, selected_body)
            /\ UNCHANGED <<selected_body, body_select_button_held, selection>>
    /\ UNCHANGED <<doc, DuplicateLabels, selected_plane, selected_letter, letter_combo,
                   size_input, last, calls, ActiveDocument, plane_select_button_held, pc,
                   line_edit>>

SelectNext ==
    \/ Pick
    \/ TogglePlane
    \/ ArmPlane
    \/ PollPlane
    \/ ToggleBody
    \/ ArmBody
    \/ PollBody

SelectSpec == Init /\ [][SelectNext]_vars

----------------------------------------------------------------------------
(* Vocabulary of the properties *)

OfType(d, t) == {i \in Ids(d) : d[i].TypeId = t}

\* the step is a call of one of the five handlers
HandlerCall == last'.op # "none"

\* the cut results the last call reported
CreatedCuts(msgs) == {i \in 1..Len(msgs) : msgs[i].k = "created"}

\* three-digit ordinals, written out
Ordinal3 == << <<"0","0","1">>, <<"0","0","2">>, <<"0","0","3">>, <<"0","0","4">> >>

StartsWith(s, t) == Len(s) >= Len(t) /\ SubSeq(s, 1, Len(t)) = t

RootContainers(d) == {i \in OfType(d, TGroup) : d[i].Label = group_label}

\* the containers made for a letter: named Cut_<letter>, or Cut_<letter> with
\* the number the host appends to a name already taken
LetterContainers(d, letter) ==
    {i \in OfType(d, TGroup) : \/ d[i].Name = T_Cut \o letter
                               \/ /\ StartsWith(d[i].Name, T_Cut \o letter)
                                  /\ IsDigits(SubSeq(d[i].Name, Len(letter) + 5, Len(d[i].Name)))}

RejectedHasCuts == <<Msg("err_has_cuts", 0)>>

\* the edge length, in mm, that an entry of the size dropdown names
EdgeNamed(text) == IF text = <<"5","0","0">> \o T_mm THEN 500
                   ELSE IF text = <<"1","0","0","0">> \o T_mm THEN 1000
                   ELSE 0

----------------------------------------------------------------------------
(* C1 *)

\* C1: in a document where Cut_L holds a cut result, each of the five
\* handlers, called with L in the dropdown and L stored, invokes no stage and
\* leaves the document (objects, labels, group memberships) as it was.
C1_TerminalState ==
    [][ ( /\ HandlerCall
          /\ letter_combo \in Letters
          /\ selected_letter = letter_combo
          /\ \E m \in Ids(doc) : /\ doc[m].TypeId = TCut
                                 /\ FindCutGroup(doc, letter_combo) # 0
                                 /\ Contains(doc[FindCutGroup(doc, letter_combo)].Group, m) )
        => ( doc' = doc /\ last'.stages = <<>> ) ]_vars

\* a handler other than the full sequence was called on a letter with cuts
C1_Witness ==
    /\ last.op = "cubes"
    /\ last.state = "has_cuts"
    /\ letter_combo \in Letters
    /\ selected_letter = letter_combo
    /\ last.msgs = RejectedHasCuts

----------------------------------------------------------------------------
(* C2 *)

\* C2: after a run of the full sequence that produced a cut result the
\* classifier reports has_cuts for the stored letter, and the full sequence
\* run again on the same panel reports the conflict and adds no object.
C2_RunOnce ==
    [][ /\ ( (last'.op = "all" /\ CreatedCuts(last'.msgs) # {})
             => group_state(doc', selected_letter') = "has_cuts" )
        /\ ( (last.op = "all" /\ CreatedCuts(last.msgs) # {} /\ last'.op = "all")
             => (last'.msgs = RejectedHasCuts /\ Len(doc') = Len(doc) /\ doc' = doc) ) ]_vars

\* the full sequence was run again on a letter that has cuts, and was rejected
C2_Witness ==
    /\ last.op = "all"
    /\ last.state = "has_cuts"
    /\ last.msgs = RejectedHasCuts
    /\ last.n0 = Len(doc)
    /\ OfType(doc, TCut) # {}

----------------------------------------------------------------------------
(* C3 *)

\* the objects the last call added to the document
NewObjects == {i \in Ids(doc) : i > last.n0}

\* object i is a cube of edge s on plane p: a body holding a sketch of a
\* square of edge s attached to p and a pad of that sketch of length s
IsCubeOf(d, i, s, p) ==
    /\ d[i].TypeId = TPDBody
    /\ Len(d[i].Group) = 2
    /\ LET sk == d[i].Group[1]
           pd == d[i].Group[2]
       IN /\ d[sk].TypeId = TSketch /\ d[sk].Size = s /\ d[sk].Attached = p
          /\ d[pd].TypeId = TPadType /\ d[pd].Size = s /\ d[pd].Base = sk

\* C3: the full sequence, run for a stored letter L that the dropdown shows
\* too, on a document without cutview containers and a body of N >= 1 leaf
\* solids, leaves one root container, one container Cut_L, N proxies
\* L001_Link_.. to L<N>_Link_.., N cubes L001_Cutcube to L<N>_Cutcube of the
\* configured edge, N cut results L001_Cut_[..] to L<N>_Cut_[..], and the
\* selected body hidden.
C3_FullSequence ==
    ( /\ last.op = "all"
      /\ last.n0 = Len(InitialDocument)
      /\ last.state = "no_group"
      /\ selected_letter \in Letters
      /\ letter_combo = selected_letter
      /\ collect(InitialDocument, selected_body) # <<>> )
    => LET L == selected_letter
           leaves == collect(InitialDocument, selected_body)
           N == Len(leaves)
           S == EdgeNamed(size_input)
           links == NewObjects \cap OfType(doc, TLink)
           cubes == NewObjects \cap OfType(doc, TPDBody)
           cuts == NewObjects \cap OfType(doc, TCut)
       IN /\ Cardinality(RootContainers(doc)) = 1
          /\ Cardinality(LetterContainers(doc, L)) = 1
          /\ Cardinality(OfType(doc, TGroup)) = 2
          /\ Cardinality(links) = N
          /\ Cardinality(cubes) = N
          /\ Cardinality(cuts) = N
          /\ \A k \in 1..N :
               \E l \in links, c \in cubes, r \in cuts :
                 /\ doc[l].Label = L \o Ordinal3[k] \o T_Link \o <<"_">>
                                     \o InitialDocument[leaves[k]].Label
                 /\ doc[l].LinkedObject = leaves[k]
                 /\ doc[c].Label = L \o Ordinal3[k] \o T_Cutcube
                 /\ IsCubeOf(doc, c, S, selected_plane)
                 /\ StartsWith(doc[r].Label, L \o Ordinal3[k] \o T_CutOpen)
                 /\ doc[r].Label[Len(doc[r].Label)] = "]"
                 /\ doc[r].Base = l
                 /\ doc[r].Tool = c
          /\ doc[selected_body].Visibility = FALSE

\* the full sequence ran on the untouched document and made its cuts
C3_Witness ==
    /\ last.op = "all"
    /\ last.n0 = Len(InitialDocument)
    /\ last.state = "no_group"
    /\ selected_letter \in Letters
    /\ letter_combo = selected_letter
    /\ Len(collect(InitialDocument, selected_body)) = 2
    /\ Cardinality(OfType(doc, TCut)) = 2

----------------------------------------------------------------------------
(* C4 *)

\* C4: build group called twice in succession for a valid letter L (in the
\* dropdown and stored) leaves exactly one root container and exactly one
\* container for L, and the second call creates no object and changes no
\* group membership.
C4_BuildGroupIdempotent ==
    [][ ( /\ last.op = "group"
          /\ last'.op = "group"
          /\ letter_combo \in Letters
          /\ selected_letter = letter_combo )
        => ( /\ Cardinality(RootContainers(doc')) = 1
             /\ Cardinality(LetterContainers(doc', letter_combo)) = 1
             /\ Len(doc') = Len(doc)
             /\ \A i \in Ids(doc) : doc'[i].Group = doc[i].Group ) ]_vars

----------------------------------------------------------------------------
(* C5 *)

\* C5: when the link generator runs for a valid letter L on a body with
\* N >= 1 leaf solids, the call adds exactly N link proxies, all of them
\* members of the container Cut_L, the k-th labelled L<k>_Link_<label of
\* the k-th leaf in traversal order>, with pairwise distinct labels.
C5_BuildLinks ==
    [][ ( /\ last'.op = "links"
          /\ last'.stages = <<"A030">>
          /\ selected_body # 0
          /\ LinkLetter(selected_letter, letter_combo) \in Letters
          /\ collect(doc, selected_body) # <<>> )
        => LET L == LinkLetter(selected_letter, letter_combo)
               leaves == collect(doc, selected_body)
               N == Len(leaves)
               links == {i \in OfType(doc', TLink) : i > Len(doc)}
               group == FindCutGroup(doc', L)
           IN /\ Cardinality(links) = N
              /\ group # 0
              /\ \A l \in links : Contains(doc'[group].Group, l)
              /\ \A k \in 1..N :
                   \E l \in links :
                     /\ doc'[l].LinkedObject = leaves[k]
                     /\ doc'[l].Label = L \o Ordinal3[k] \o T_Link \o <<"_">>
                                          \o doc[leaves[k]].Label
              /\ \A l1, l2 \in links : l1 # l2 => doc'[l1].Label # doc'[l2].Label ]_vars

----------------------------------------------------------------------------
(* C6 *)

\* the ordinal text a proxy label carries after its letter
ProxyOrdinal(label, letter) ==
    SubSeq(label, Len(letter) + 1, Len(letter) + DigitRun(label, Len(letter) + 1))

\* C6: build cubes, called with a plane selected for a valid letter L whose
\* container Cut_L holds N >= 1 link proxies and no cut result, adds exactly
\* N cubes to that container, one labelled L<ordinal>_Cutcube for the
\* ordinal of each proxy, each of the edge length the size dropdown names.
C6_BuildCubes ==
    [][ ( /\ last'.op = "cubes"
          /\ selected_plane # 0
          /\ letter_combo \in Letters
          /\ SubLinks(doc, letter_combo) # <<>>
          /\ OfType(doc, TCut) = {} )
        => LET L == letter_combo
               proxies == SubLinks(doc, L)
               N == Len(proxies)
               group == FindCutGroup(doc, L)
               cubes == {i \in OfType(doc', TPDBody) : i > Len(doc)}
           IN /\ Cardinality(cubes) = N
              /\ \A c \in cubes : /\ Contains(doc'[group].Group, c)
                                   /\ IsCubeOf(doc', c, EdgeNamed(size_input),
                                               selected_plane)
              /\ \A k \in 1..N :
                   \E c \in cubes :
                     doc'[c].Label = L \o ProxyOrdinal(doc[proxies[k]].Label, L)
                                       \o T_Cutcube ]_vars

----------------------------------------------------------------------------
(* C7 *)

\* label is <capital letter><digits>_Link<rest>, the digits being n long
WellFormedAt(label, n) ==
    /\ Len(label) >= n + 6
    /\ label[1] \in Upper
    /\ \A i \in 2..(n + 1) : label[i] \in Digit
    /\ SubSeq(label, n + 2, n + 6) = T_Link

WellFormed(label) == \E n \in 1..Len(label) : WellFormedAt(label, n)

\* <letter><ordinal> of a well-formed proxy label, and what follows _Link
PrefixOf(label) == SubSeq(label, 1, 1 + CHOOSE n \in 1..Len(label) : WellFormedAt(label, n))
RestOf(label) == SubSeq(label, Len(PrefixOf(label)) + 6, Len(label))

\* the objects labelled as the cube of a well-formed proxy label
CubesFor(d, label) == {c \in Ids(d) : d[c].Label = PrefixOf(label) \o T_Cutcube}

\* a proxy whose label is malformed or names a cube that does not exist
Unmatched(d, p) == ~WellFormed(d[p].Label) \/ CubesFor(d, d[p].Label) = {}

\* C7: build cuts makes, for every proxy of Cut_L whose label prefix
\* L<ordinal> names an existing cube L<ordinal>_Cutcube, exactly one cut
\* result, of that proxy and that cube, labelled <prefix>_Cut_[<rest of the
\* proxy label>]; no proxy is cut twice and no cube serves a proxy of
\* another ordinal.
C7_CutPairing ==
    [][ ( /\ last'.op = "cuts"
          /\ last'.stages = <<"A050">> )
        => LET proxies == SubLinks(doc, letter_combo)
               cuts == {i \in OfType(doc', TCut) : i > Len(doc)}
           IN /\ \A k \in 1..Len(proxies) :
                   ~Unmatched(doc, proxies[k]) =>
                     LET p == proxies[k]
                         mine == {r \in cuts : doc'[r].Base = p}
                     IN /\ Cardinality(mine) = 1
                        /\ \A r \in mine :
                             /\ doc'[r].Tool \in CubesFor(doc, doc[p].Label)
                             /\ doc'[r].Label = PrefixOf(doc[p].Label) \o T_CutOpen
                                                  \o RestOf(doc[p].Label) \o T_Close
              /\ \A r \in cuts : \E k \in 1..Len(proxies) :
                   /\ doc'[r].Base = proxies[k]
                   /\ ~Unmatched(doc, proxies[k])
                   /\ doc'[r].Tool \in CubesFor(doc, doc[proxies[k]].Label) ]_vars

----------------------------------------------------------------------------
(* C8 *)

\* the warnings the call reported about object p
WarningsAbout(msgs, p) ==
    {i \in 1..Len(msgs) : msgs[i].k \in {"warn_no_prefix", "warn_no_cube"} /\ msgs[i].o = p}

\* C8: in build cuts every proxy whose label is malformed or names no
\* existing cube gets no cut result and exactly one warning, and every other
\* proxy of the batch gets its cut result, wherever the unmatched proxies
\* stand in the list.
C8_MismatchNonFatal ==
    [][ ( /\ last'.op = "cuts"
          /\ last'.stages = <<"A050">> )
        => LET proxies == SubLinks(doc, letter_combo)
               cuts == {i \in OfType(doc', TCut) : i > Len(doc)}
           IN \A k \in 1..Len(proxies) :
                LET p == proxies[k]
                    mine == {r \in cuts : doc'[r].Base = p}
                IN IF Unmatched(doc, p)
                   THEN /\ mine = {}
                        /\ Cardinality(WarningsAbout(last'.msgs, p)) = 1
                   ELSE /\ Cardinality(mine) = 1
                        /\ WarningsAbout(last'.msgs, p) = {} ]_vars

\* build cuts ran on a batch whose first proxy was unmatched and whose second
\* proxy was cut
C8_Witness ==
    /\ last.op = "cuts"
    /\ Len(last.msgs) = 2
    /\ last.msgs[1].k \in {"warn_no_prefix", "warn_no_cube"}
    /\ last.msgs[2].k = "created"
    /\ doc[last.msgs[2].o].TypeId = TCut
    /\ doc[last.msgs[2].o].Base > last.msgs[1].o

----------------------------------------------------------------------------
(* C9 *)

\* the containers named Cut_<letter>
Named(d, letter) == {g \in OfType(d, TGroup) : d[g].Name = T_Cut \o letter}

\* the types of the members of container g
MemberTypes(d, g) == {d[d[g].Group[i]].TypeId : i \in 1..Len(d[g].Group)}

\* the classification as the five rules give it
Classified(d, letter) ==
    IF Named(d, letter) = {} THEN "no_group"
    ELSE LET types == UNION {MemberTypes(d, g) : g \in Named(d, letter)}
         IN CASE types = {} -> "empty"
              [] TCut \in types -> "has_cuts"
              [] types = {TLink} -> "only_links"
              [] OTHER -> "other"

\* the letters a classification can be asked for
AskedLetters == ComboItems \cup {NoLetter}

\* C9: group_state returns, for every letter and document, the one state of
\* the five that the rules give: no container named Cut_<letter>: no_group;
\* no members: empty; a Part::Cut member: has_cuts, whatever else is there;
\* only App::Link members: only_links; anything else: other. Every handler
\* that classifies records that state.
C9_Classifier ==
    [][ /\ \A letter \in AskedLetters :
             group_state(doc', letter) = Classified(doc', letter)
        /\ (HandlerCall /\ last'.state # "unclassified")
             => last'.state = Classified(doc, last'.letter) ]_vars

\* a handler classified a container holding a cut result next to a proxy
C9_Witness ==
    /\ last.op # "none"
    /\ last.state = "has_cuts"
    /\ \E g \in Named(doc, last.letter) : {TCut, TLink} \subseteq MemberTypes(doc, g)

----------------------------------------------------------------------------
(* C10 *)

\* C10: the full sequence, called with a plane, a body and a stored letter,
\* invokes group builder, link generator, cube generator, cut executor in
\* that order when the letter's state is no_group or empty, only cube
\* generator then cut executor when it is only_links, and no stage when it
\* is has_cuts.
C10_StageOrder ==
    [][ ( /\ last'.op = "all"
          /\ selected_plane # 0
          /\ selected_body # 0
          /\ selected_letter \in Letters )
        => LET state == Classified(doc, selected_letter)
           IN /\ state \in {"no_group", "empty"}
                   => last'.stages = <<"A020", "A030", "A040", "A050">>
              /\ state = "only_links" => last'.stages = <<"A040", "A050">>
              /\ state = "has_cuts" => (last'.stages = <<>> /\ doc' = doc) ]_vars

\* the full sequence ran on a container of proxies only and made the cubes
\* and the cuts without building links again
C10_Witness ==
    /\ last.op = "all"
    /\ last.state = "only_links"
    /\ last.stages = <<"A040", "A050">>
    /\ Cardinality(OfType(doc, TLink)) = 3
    /\ Cardinality(OfType(doc, TCut)) = 2

----------------------------------------------------------------------------
(* C11 *)

\* the kinds of the messages a call reported
Kinds(msgs) == {msgs[i].k : i \in 1..Len(msgs)}

\* C11: build links, called for a letter whose state is no_group, reports
\* the missing container, invokes no stage, and leaves the document as it
\* was: no container, no proxy, no visibility flag changed.
C11_LinksNeedContainer ==
    [][ ( /\ last'.op = "links"
          /\ last'.state = "no_group" )
        => ( /\ doc' = doc
             /\ last'.stages = <<>>
             /\ "err_no_group" \in Kinds(last'.msgs) ) ]_vars

----------------------------------------------------------------------------
(* C12 *)

\* C12: after any sequence of handler calls the document holds at most one
\* container per letter, and no call gives an existing per-letter container
\* another parent.
C12_ContainerUnique ==
    [][ \A letter \in Letters :
          /\ Cardinality(LetterContainers(doc', letter)) <= 1
          /\ \A g \in LetterContainers(doc, letter) :
               Parent(doc', g) = Parent(doc, g) ]_vars

----------------------------------------------------------------------------
(* C13 *)

\* the cubes made for key <letter><ordinal>: bodies named <key>_Cutcube, or
\* that with the number the host appends to a name already taken
CubesOfKey(d, key) ==
    {i \in OfType(d, TPDBody) :
       \/ d[i].Name = key \o T_Cutcube
       \/ /\ StartsWith(d[i].Name, key \o T_Cutcube)
          /\ IsDigits(SubSeq(d[i].Name, Len(key \o T_Cutcube) + 1, Len(d[i].Name)))}

\* the keys <letter><ordinal> the model's documents can hold
Keys == {letter \o Ordinal3[k] : letter \in Letters, k \in 1..Len(Ordinal3)}

\* C13: after any sequence of handler calls there is, for every letter and
\* ordinal, at most one cube of that key in the document.
C13_CubeUnique ==
    \A key \in Keys : Cardinality(CubesOfKey(doc, key)) <= 1

----------------------------------------------------------------------------
(* C14 *)

\* the proxies and the cut results of key <letter><ordinal>, by their labels
ProxiesOfKey(d, key) == {i \in OfType(d, TLink) : StartsWith(d[i].Label, key \o T_Link)}
CutsOfKey(d, key) == {i \in OfType(d, TCut) : StartsWith(d[i].Label, key \o T_CutOpen)}

KeysOf(letter) == {letter \o Ordinal3[k] : k \in 1..Len(Ordinal3)}

\* the objects a step creates
Created(d, e) == {i \in Ids(e) : i > Len(d)}

\* proxy l is a member of container g, or was until a cut result that is a
\* member of g took it as its base
HeldBy(e, g, l) ==
    \/ Parent(e, l) = g
    \/ \E r \in OfType(e, TCut) : e[r].Base = l /\ Parent(e, r) = g

\* container, then proxies, then cubes, then cuts: every proxy a step
\* creates for a letter is younger than a container of that letter, every
\* cube younger than a proxy held by such a container, every cut result
\* younger than its proxy and its cube
CreatedInOrder(d, e, letter) ==
    \A key \in KeysOf(letter) :
      /\ \A l \in ProxiesOfKey(e, key) \cap Created(d, e) :
           \E g \in LetterContainers(e, letter) : g < l
      /\ \A c \in CubesOfKey(e, key) \cap Created(d, e) :
           \E g \in LetterContainers(e, letter), l \in OfType(e, TLink) :
             HeldBy(e, g, l) /\ l < c
      /\ \A r \in CutsOfKey(e, key) \cap Created(d, e) :
           /\ e[r].Base \in Ids(e) /\ e[r].Base < r /\ e[e[r].Base].TypeId = TLink
           /\ e[r].Tool \in Ids(e) /\ e[r].Tool < r /\ e[r].Tool \in CubesOfKey(e, key)

\* nothing is created for a key, or a container for a letter, that the
\* document already holds one of
CreatedOnce(d, e, letter) ==
    /\ LetterContainers(e, letter) \cap Created(d, e) # {}
         => Cardinality(LetterContainers(e, letter)) = 1
    /\ \A key \in KeysOf(letter) :
         /\ ProxiesOfKey(e, key) \cap Created(d, e) # {}
              => Cardinality(ProxiesOfKey(e, key)) = 1
         /\ CubesOfKey(e, key) \cap Created(d, e) # {}
              => Cardinality(CubesOfKey(e, key)) = 1
         /\ CutsOfKey(e, key) \cap Created(d, e) # {}
              => Cardinality(CutsOfKey(e, key)) = 1

\* C14: in every handler call and for every letter, the entities are created
\* in the order container, proxies, cubes, cuts (no proxy without the
\* container, no cube unless the container holds a proxy, no cut result
\* without its proxy and its cube), and no entity of a kind is created a
\* second time for the same key.
C14_Lifecycle ==
    [][ HandlerCall =>
          \A letter \in Letters :
            CreatedInOrder(doc, doc', letter) /\ CreatedOnce(doc, doc', letter) ]_vars

----------------------------------------------------------------------------
(* C15 *)

\* C15: the group builder, invoked with no stored letter or with one that is
\* not a single character, reports the error and changes nothing: it creates
\* no root container and no per-letter container, whether the root existed
\* or not.
C15_GroupNeedsLetter ==
    [][ ( /\ last'.op = "group"
          /\ last'.stages = <<"A020">>
          /\ ~ValidLetter(selected_letter) )
        => ( /\ "err_no_valid_letter" \in Kinds(last'.msgs)
             /\ doc' = doc ) ]_vars

----------------------------------------------------------------------------
(* C16 *)

\* C16: the link generator, run by build links on a body in which the
\* traversal finds no leaf solid, reports the error and leaves the document
\* as it was: no container, no proxy, no visibility flag changed, whether
\* the per-letter container existed or not.
C16_NoLeaves ==
    [][ ( /\ last'.op = "links"
          /\ last'.stages = <<"A030">>
          /\ selected_body # 0
          /\ collect(doc, selected_body) = <<>> )
        => ( /\ "err_no_solids" \in Kinds(last'.msgs)
             /\ doc' = doc ) ]_vars

----------------------------------------------------------------------------
(* C18 *)

\* C18: with no letter stored and the blank entry in the dropdown, each of
\* build links, build cubes, build cuts and the full sequence aborts and
\* leaves the document as it was: no object created, no group membership
\* and no visibility flag changed.
C18_MissingLetter ==
    [][ ( /\ last'.op \in {"links", "cubes", "cuts", "all"}
          /\ selected_letter = NoLetter
          /\ letter_combo = BlankEntry )
        => doc' = doc ]_vars

----------------------------------------------------------------------------
(* C17 *)

\* the cubes whose construction the last call reported as failed
FailedCubes(msgs) == {msgs[i].o : i \in {j \in 1..Len(msgs) : msgs[j].k = "err_rectangle"}}

\* object i is a finished cube, or the sketch or the pad of one
PartOfCube(d, i, s, p) ==
    \/ IsCubeOf(d, i, s, p)
    \/ /\ d[i].TypeId \in {TSketch, TPadType}
       /\ Parent(d, i) # 0
       /\ IsCubeOf(d, Parent(d, i), s, p)

\* C17: when the construction of a cube raises, in build cubes, after its
\* body or its sketch was added, the error is reported and nothing made for
\* that cube is left: no object of the cube's key, in the document or in the
\* container, and every object the call created belongs to a finished cube.
C17_RolledBack ==
    [][ ( /\ last'.op = "cubes"
          /\ FailedCubes(last'.msgs) # {} )
        => \A k \in FailedCubes(last'.msgs) :
             /\ CubesOfKey(doc', letter_combo \o Pad3(k)) \cap Created(doc, doc') = {}
             /\ \A i \in Created(doc, doc') :
                  PartOfCube(doc', i, EdgeNamed(size_input), selected_plane) ]_vars

----------------------------------------------------------------------------
(* C19 *)

\* C19: whatever the error condition, the absence of an active document
\* included, a handler reports and returns: no exception leaves build group,
\* build links, build cubes, build cuts or the full sequence.
C19_NoEscape ==
    [][ HandlerCall => ~last'.raised ]_vars

----------------------------------------------------------------------------
(* C20 *)

\* C20: whatever the interleaving of clicks, picks and poll ticks, clicks
\* delivered inside a polling loop included, at most one of the plane
\* selector and the body selector is armed, and a selector is armed only
\* once the other has been disarmed.
C20_OneSelector ==
    [][ /\ ~(plane_select_button_held' /\ body_select_button_held')
        /\ (plane_select_button_held' /\ ~plane_select_button_held)
             => ~body_select_button_held
        /\ (body_select_button_held' /\ ~body_select_button_held)
             => ~plane_select_button_held ]_vars

\* the body selector was armed by a click delivered inside the polling loop
\* of the plane selector, which it disarmed
C20_Witness ==
    /\ loops = <<"plane", "body">>
    /\ pc = "events"
    /\ body_select_button_held
    /\ ~plane_select_button_held

----------------------------------------------------------------------------
(* The selection loops *)

\* the type tags the plane selector and the body selector take
PlaneKinds == {"Part::Plane", "Part::DatumPlane"}
BodyKinds == {"Assembly::Assembly", "Assembly::AssemblyObject", "App::Part", "Part::Body",
              "PartDesign::Body", "App::Link", "App::LinkSub"}

\* the step is a tick of the plane loop (of the body loop) that finds object
\* `selection` selected while the selector is armed
ArmedPlaneTick == PollPlane /\ plane_select_button_held /\ selection # 0
ArmedBodyTick == PollBody /\ body_select_button_held /\ selection # 0

\* C21: while a selector is armed, a tick that finds a selected object of a
\* type outside the slot's allowed set shows the rejection in the display
\* field, clears the host selection, leaves the stored object as it is and
\* leaves the selector armed and polling; a tick that finds an object of an
\* allowed type stores it, disarms the selector and ends the loop; so a stored
\* object always has a type of the allowed set of its slot.
C21_PollTick ==
    [][ /\ (ArmedPlaneTick /\ doc[selection].TypeId \notin PlaneKinds)
             => /\ line_edit'.k = "error"
                /\ selection' = 0
                /\ selected_plane' = selected_plane
                /\ plane_select_button_held'
                /\ loops' = loops
        /\ (ArmedPlaneTick /\ doc[selection].TypeId \in PlaneKinds)
             => /\ selected_plane' = selection
                /\ ~plane_select_button_held'
                /\ loops' = Pop(loops)
        /\ (ArmedBodyTick /\ doc[selection].TypeId \notin BodyKinds)
             => /\ body_line_edit'.k = "error"
                /\ selection' = 0
                /\ selected_body' = selected_body
                /\ body_select_button_held'
                /\ loops' = loops
        /\ (ArmedBodyTick /\ doc[selection].TypeId \in BodyKinds)
             => /\ selected_body' = selection
                /\ ~body_select_button_held'
                /\ loops' = Pop(loops)
        /\ selected_plane' # 0 => doc'[selected_plane'].TypeId \in PlaneKinds
        /\ selected_body' # 0 => doc'[selected_body'].TypeId \in BodyKinds ]_vars

\* the armed plane selector has rejected an object and polls on, after the
\* body selector had stored an object
C21_Witness ==
    /\ line_edit.k = "error"
    /\ plane_select_button_held
    /\ selection = 0
    /\ loops = <<"plane">>
    /\ selected_body # 0

\* the step is a tick that accepts the selected object while the selector is
\* armed
AcceptedPlane == ArmedPlaneTick /\ doc[selection].TypeId \in PlaneKinds
AcceptedBody == ArmedBodyTick /\ doc[selection].TypeId \in BodyKinds

\* C22: whenever an armed selector becomes disarmed without a valid pick
\* accepted in that armed period, by a click on its own button or by the
\* arming of the other selector, the stored selection of its slot is empty
\* afterwards.
C22_DisarmClears ==
    [][ /\ (plane_select_button_held /\ ~plane_select_button_held' /\ ~AcceptedPlane)
             => selected_plane' = 0
        /\ (body_select_button_held /\ ~body_select_button_held' /\ ~AcceptedBody)
             => selected_body' = 0 ]_vars

----------------------------------------------------------------------------
(* C23 *)

\* C23: starting from a document without cutview objects, and applying only
\* the five actions, group_state never returns 'other', for any letter: no
\* call classifies 'other' and no document reached is classified 'other'.
C23_OtherUnreachable ==
    /\ last.state # "other"
    /\ \A letter \in AskedLetters : group_state(doc, letter) # "other"

----------------------------------------------------------------------------
(* C24 *)

\* the link proxies of document d
Proxies(d) == OfType(d, TLink) \ OfType(InitialDocument, TLink)

\* C24: build links, called for a letter whose container is classified
\* only_links, creates no object and changes no group membership; so a build
\* links that follows a build links which made proxies makes no further
\* proxy: their number stays.
C24_NoDuplicateProxies ==
    [][ /\ ( /\ last'.op = "links"
             /\ last'.state = "only_links" )
           => ( /\ Len(doc') = Len(doc)
                /\ \A i \in Ids(doc) : doc'[i].Group = doc[i].Group )
        /\ ( /\ last.op = "links"
             /\ \E l \in Proxies(doc) : l > last.n0
             /\ last'.op = "links" )
           => Cardinality(Proxies(doc')) = Cardinality(Proxies(doc)) ]_vars

----------------------------------------------------------------------------
(* C25 *)

\* C25: once the link generator has made the proxy of a leaf, the visibility
\* of that leaf is off, whether the leaf is a body (linked by Std_LinkMake)
\* or a link to a body (linked by Std_LinkMakeRelative).
C25_SourceHidden ==
    [][ \A l \in Created(doc, doc') :
          ( /\ doc'[l].TypeId = TLink
            /\ doc'[l].LinkedObject # 0 )
          => ~doc'[doc'[l].LinkedObject].Visibility ]_vars

----------------------------------------------------------------------------
(* C26 *)

\* C26: every container Cut_<letter> that exists is a member of the root
\* container All_Cutviews; no action creates a per-letter container outside
\* the root, so that the lookup of the cube generator, which goes through the
\* root, finds every container the other stages use.
C26_ContainersUnderRoot ==
    \A g \in OfType(doc, TGroup) :
      StartsWith(doc[g].Name, T_Cut)
        => ( /\ Parent(doc, g) # 0
             /\ Parent(doc, g) \in RootContainers(doc) )

----------------------------------------------------------------------------
(* C27 *)

\* C27: a run of the full sequence works with one letter, the stored letter
\* L: the classification, the container, the proxy labels, the container the
\* cube generator looks up, the cube labels and the collection of the proxies
\* for the cuts all use L, also when the dropdown shows another entry; the
\* run does what it does with the dropdown showing L.
C27_OneLetter ==
    [][ ( /\ last'.op = "all"
          /\ last'.stages # <<>>
          /\ "err_rectangle" \notin Kinds(last'.msgs) )
        => ( /\ last'.letter = selected_letter
             /\ doc' = handle_do_all(doc, selected_plane, selected_body, selected_letter,
                                     selected_letter, size_input, DuplicateLabels,
                                     NoFault).d
             /\ last'.msgs = handle_do_all(doc, selected_plane, selected_body,
                                           selected_letter, selected_letter, size_input,
                                           DuplicateLabels, NoFault).m ) ]_vars

----------------------------------------------------------------------------
(* C28 *)

\* the groups a step creates or changes the members of, the root aside
TouchedGroups(d, e) ==
    {g \in OfType(e, TGroup) \ RootContainers(e) : g > Len(d) \/ e[g].Group # d[g].Group}

\* C28: in build group, build links, build cubes and build cuts the letter the
\* handler classifies is the letter whose container the stage it runs reads
\* or changes: the step creates or changes no container of another letter.
C28_GateAndStageAgree ==
    [][ ( /\ last'.op \in {"group", "links", "cubes", "cuts"}
          /\ last'.stages # <<>> )
        => \A letter \in Letters \ {last'.letter} :
             TouchedGroups(doc, doc') \cap LetterContainers(doc', letter) = {} ]_vars

----------------------------------------------------------------------------
(* C29, C30 *)

\* C29: a polling loop acts on the host selection only while its own selector
\* is armed: a tick of a loop whose selector has been disarmed stores no
\* object, reports no rejection and does not clear the host selection.
C29_DisarmedLoopInert ==
    [][ /\ (PollPlane /\ ~plane_select_button_held)
             => /\ selected_plane' = selected_plane
                /\ selection' = selection
                /\ line_edit'.k # "error"
        /\ (PollBody /\ ~body_select_button_held)
             => /\ selected_body' = selected_body
                /\ selection' = selection
                /\ body_line_edit'.k # "error" ]_vars

\* C30: whenever no selector is armed and no polling loop is running, the
\* display field of each selector shows 'No ... selected' exactly when its
\* slot is empty, and 'Name - Label' of the stored object when it is filled;
\* it shows neither the 'Please select ...' prompt nor a rejection.
C30_DisplayMatches ==
    ( /\ ~plane_select_button_held
      /\ ~body_select_button_held
      /\ loops = <<>>
      /\ pc = "events" )
    => ( /\ line_edit = Display(doc, selected_plane)
         /\ body_line_edit = Display(doc, selected_body) )

----------------------------------------------------------------------------
(* C31 *)

\* C31: a run of the full sequence that creates no cut result (the selected
\* body has no leaf solids, the container holds no proxies, a stage reported
\* an error) leaves the visibility of the selected body as it was.
C31_BodyHiddenOnSuccess ==
    [][ ( /\ last'.op = "all"
          /\ selected_body # 0
          /\ Created(doc, doc') \cap OfType(doc', TCut) = {} )
        => doc'[selected_body].Visibility = doc[selected_body].Visibility ]_vars

====
